---- MODULE Spec2Model ----
(***************************************************************************)
(* Bounded-concurrency batch conversion of the simple converters           *)
(* (SimplePdfConverter, SimpleDocxConverter, SimplePptxConverter,          *)
(* SimpleImageConverter).                                                  *)
(*                                                                         *)
(* One convert_batch call of one converter unit is modelled: the call      *)
(* creates an asyncio.Semaphore and one _convert_single task per submitted *)
(* path, awaits asyncio.gather with return_exceptions=True, then       *)
(* builds the output dict with the zip loop.  A task is a small state      *)
(* machine whose suspension points are the semaphore acquire and the       *)
(* awaits of run_in_thread_pool.  Texts are sequences of characters, so    *)
(* that strip(), the page tags and the code fence are computed.            *)
(***************************************************************************)
EXTENDS Integers, Sequences, FiniteSets, TLC

(***************************************************************************)
(* Bounds of the model.                                                    *)
(***************************************************************************)
\* Longest list of paths handed to convert_batch.
MaxPaths == 3
\* Scaled stand-in for MAX_CONCURRENT = 20 of the PDF, DOCX and PPTX units,
\* small enough for a batch to outnumber the slots.
DocSlots == 2
\* Scaled stand-in for MAX_CONCURRENT = 30 of the image unit.
ImageSlots == 3

Units == {"pdf", "docx", "pptx", "image"}

\* Files a list can name: as many as the longest list has places.
Files == 1..MaxPaths

RECURSIVE SeqsUpTo(_, _)
SeqsUpTo(S, n) ==
    IF n = 0 THEN {<<>>}
    ELSE LET shorter == SeqsUpTo(S, n - 1)
         IN  shorter \cup {Append(s, x) : s \in {t \in shorter : Len(t) = n - 1}, x \in S}

\* Files are interchangeable, so a list is taken up to renaming: a file is
\* named for the first time with the least number not yet used.
FirstUseOrder(s) ==
    \A i \in 1..Len(s) : s[i] <= 1 + Cardinality({s[j] : j \in 1..(i - 1)})

\* The lists of paths a caller may submit (duplicates allowed, empty allowed).
PathLists == {s \in SeqsUpTo(Files, MaxPaths) : FirstUseOrder(s)}

\* Variant: the cap is one slot.
MAX_CONCURRENT_One(u) == 1

\* MAX_CONCURRENT class attribute of each unit (scaled, see the bounds).
MAX_CONCURRENT(u) == IF u = "image" THEN ImageSlots ELSE DocSlots

(***************************************************************************)
(* Text helpers: Python str operations on sequences of characters.         *)
(***************************************************************************)
IsSpace(c) == c \in {" ", "\n", "\t"}

RECURSIVE LStrip(_)
LStrip(t) == IF t # <<>> /\ IsSpace(Head(t)) THEN LStrip(Tail(t)) ELSE t

RECURSIVE RStrip(_)
RStrip(t) ==
    IF t # <<>> /\ IsSpace(t[Len(t)]) THEN RStrip(SubSeq(t, 1, Len(t) - 1)) ELSE t

\* str.strip()
Strip(t) == RStrip(LStrip(t))

\* sep.join(parts)
RECURSIVE Join(_, _)
Join(sep, parts) ==
    IF parts = <<>> THEN <<>>
    ELSE IF Len(parts) = 1 THEN parts[1]
    ELSE parts[1] \o sep \o Join(sep, Tail(parts))

Digits == <<"0", "1", "2", "3", "4", "5", "6", "7", "8", "9">>

\* str(n) of a natural number, as in an f-string.
RECURSIVE IntToStr(_)
IntToStr(n) ==
    IF n < 10 THEN <<Digits[n + 1]>>
    ELSE IntToStr(n \div 10) \o <<Digits[(n % 10) + 1]>>

(***************************************************************************)
(* Python values held by results and by the output dict.                   *)
(***************************************************************************)
StrVal(t) == [kind |-> "str", val |-> t]
\* The EntityProcessingError raised by _convert_single.
EntityProcessingError == [kind |-> "exc", val |-> <<>>]
None == [kind |-> "None", val |-> <<>>]
\* A task that has not finished has no result yet.
NoResult == [kind |-> "pending", val |-> <<>>]

\* What an extraction collaborator did for a task: not called yet, raised, or
\* returned a value (a text, or the pages of the PDF reader).
NotCalled == [kind |-> "none", val |-> <<>>]
Raised == [kind |-> "raised", val |-> <<>>]
Returned(v) == [kind |-> "returned", val |-> v]

\* Variant: the test of the zip loop never recognises an exception.
IsExceptionNever(r) == FALSE

\* isinstance(result, Exception) of the zip loop.
IsException(r) == r.kind = "exc"

(***************************************************************************)
(* The extraction collaborators.  What the parsing libraries return for a  *)
(* file is an input of the model, drawn from these sets.                   *)
(***************************************************************************)
\* Texts a primary extraction may return: empty, whitespace only, and text
\* with surrounding whitespace.
ExtractedTexts == { <<>>, <<" ", "\n">>, <<" ", "a", "\n">> }

\* What PdfReader(...).pages may yield: per page the page.extract_text().
PageDocs == { <<>>, << <<>> >>, << <<>>, <<"b", " ">> >> }

\* f"--- Page {page_num} ---\n{page_text}"
PageTag(n, page_text) ==
    <<"-", "-", "-", " ", "P", "a", "g", "e", " ">> \o IntToStr(n)
        \o <<" ", "-", "-", "-", "\n">> \o page_text

\* text_parts of extract() in _extract_with_pypdf2 after the first n pages.
RECURSIVE TextParts(_, _)
TextParts(pages, n) ==
    IF n = 0 THEN <<>>
    ELSE IF pages[n] # <<>>
         THEN Append(TextParts(pages, n - 1), PageTag(n, pages[n]))
         ELSE TextParts(pages, n - 1)

\* extract() of _extract_with_pypdf2: "\n\n".join(text_parts)
Pypdf2Extract(pages) == Join(<<"\n", "\n">>, TextParts(pages, Len(pages)))

\* not text or not text.strip()
NoText(t) == t = <<>> \/ Strip(t) = <<>>

\* The backtick character of the code fence.
Backtick == "BACKTICK"

\* The f-string of the code fence: three backticks, newline, text, newline,
\* three backticks.
Fence(t) == <<Backtick, Backtick, Backtick, "\n">> \o t
                \o <<"\n", Backtick, Backtick, Backtick>>

\* Variant: the fence is put around the text without the test for emptiness.
PdfReturnAlwaysFenced(t) == StrVal(Fence(Strip(t)))

\* Tail of SimplePdfConverter._convert_single: strip, "" if nothing is left,
\* else the fenced text.
PdfReturn(t) == IF Strip(t) = <<>> THEN StrVal(<<>>) ELSE StrVal(Fence(Strip(t)))

\* Variant: a document without text is reported as missing.
DocReturnNoneOnEmpty(t) == IF NoText(t) THEN None ELSE StrVal(Strip(t))

\* Tail of the DOCX and PPTX _convert_single: "" if no text, else text.strip().
DocReturn(t) == IF NoText(t) THEN StrVal(<<>>) ELSE StrVal(Strip(t))

\* Tail of SimpleImageConverter._convert_single: the text as extracted.
ImageReturn(t) == StrVal(t)

VARIABLES
    unit,            \* the converter unit the call is made on
    call,            \* convert_batch: "idle", "gather", "returned", "raised"
    paths,           \* the list of paths of the call
    semaphore,       \* value of the asyncio.Semaphore of the call
    pc,              \* per task: "acquire", "primary", "fallback", "done", "cancelled"
    text,            \* per task: the local variable text
    results,         \* per task: what gather collects for it
    primaryOut,      \* per task: what the primary extraction did
    fallbackCalls,   \* per task: number of calls of _extract_with_pypdf2
    fallbackOut,     \* per task: what the fallback extraction did
    cancelRequested, \* the caller has cancelled the call
    output,          \* the dict built by the zip loop
    success_count,   \* success_count of the call
    finished,        \* the tasks in the order in which they finished
    slow,            \* a task whose extraction call does not return (0: none)
    firstRun,        \* what an earlier call with the same input returned
    other,           \* a second convert_batch call on the same unit
    document,        \* a parsed DOCX or PPTX document handed to extract()
    rendered         \* the text extract() returned for the document

\* State of the convert_batch call under study.
callVars == <<unit, call, paths, semaphore, pc, text, results, primaryOut,
              fallbackCalls, fallbackOut, cancelRequested, output,
              success_count>>

\* State around the call: recorded only by the specifications that study it.
aux == <<finished, slow, firstRun, other, document, rendered>>

vars == <<callVars, aux>>

\* No earlier call, no second call, no document, nothing rendered.
NoFirstRun == [done |-> FALSE, paths |-> <<>>, output |-> <<>>,
               primaryOut |-> <<>>, fallbackOut |-> <<>>, inOrder |-> TRUE]
NoOtherCall == [call |-> "idle", semaphore |-> 0, pc |-> <<>>]
NoDocument == [kind |-> "none", paragraphs |-> <<>>, tables |-> <<>>,
               slides |-> <<>>]
NotRendered == [done |-> FALSE, text |-> <<>>]

\* Initial value of the state around the call.
AuxInit ==
    /\ finished = <<>>
    /\ slow = 0
    /\ firstRun = NoFirstRun
    /\ other = NoOtherCall
    /\ document = NoDocument
    /\ rendered = NotRendered

Tasks == 1..Len(paths)

\* Range of a sequence.
Range(s) == {s[i] : i \in 1..Len(s)}

\* Tasks inside the async with semaphore block.
InSection == {i \in Tasks : pc[i] \in {"primary", "fallback"}}

\* The unit is constructed and no call has been made.
CallInit ==
    /\ unit \in Units
    /\ call = "idle"
    /\ paths = <<>>
    /\ semaphore = 0
    /\ pc = <<>>
    /\ text = <<>>
    /\ results = <<>>
    /\ primaryOut = <<>>
    /\ fallbackCalls = <<>>
    /\ fallbackOut = <<>>
    /\ cancelRequested = FALSE
    /\ output = <<>>
    /\ success_count = 0

Init == CallInit /\ AuxInit

\* Variant: a call without paths is rejected with an error.
ConvertBatchRejectingEmpty(ps) ==
    /\ call = "idle"
    /\ call' = IF Len(ps) = 0 THEN "raised" ELSE "gather"
    /\ paths' = ps
    /\ semaphore' = MAX_CONCURRENT(unit)
    /\ pc' = [i \in 1..Len(ps) |-> "acquire"]
    /\ text' = [i \in 1..Len(ps) |-> <<>>]
    /\ results' = [i \in 1..Len(ps) |-> NoResult]
    /\ primaryOut' = [i \in 1..Len(ps) |-> NotCalled]
    /\ fallbackCalls' = [i \in 1..Len(ps) |-> 0]
    /\ fallbackOut' = [i \in 1..Len(ps) |-> NotCalled]
    /\ UNCHANGED <<unit, cancelRequested, output, success_count>>

\* convert_batch up to the await of gather: the semaphore and one task per path.
ConvertBatch(ps) ==
    /\ call = "idle"
    /\ call' = "gather"
    /\ paths' = ps
    /\ semaphore' = MAX_CONCURRENT(unit)
    /\ pc' = [i \in 1..Len(ps) |-> "acquire"]
    /\ text' = [i \in 1..Len(ps) |-> <<>>]
    /\ results' = [i \in 1..Len(ps) |-> NoResult]
    /\ primaryOut' = [i \in 1..Len(ps) |-> NotCalled]
    /\ fallbackCalls' = [i \in 1..Len(ps) |-> 0]
    /\ fallbackOut' = [i \in 1..Len(ps) |-> NotCalled]
    /\ UNCHANGED <<unit, cancelRequested, output, success_count>>

\* Variant: an acquire that never blocks.
CanAcquireUnbounded(value) == TRUE

\* Semaphore.acquire() does not block while the value is positive.
CanAcquire(value) == value > 0

\* async with semaphore: entered; the primary extraction is handed to
\* run_in_thread_pool and the task awaits it.
Acquire(i) ==
    /\ call = "gather" /\ ~cancelRequested
    /\ pc[i] = "acquire"
    /\ CanAcquire(semaphore)
    /\ semaphore' = semaphore - 1
    /\ pc' = [pc EXCEPT ![i] = "primary"]
    /\ UNCHANGED <<unit, call, paths, text, results, primaryOut, fallbackCalls,
                   fallbackOut, cancelRequested, output, success_count>>

\* The value _convert_single returns for text t without the PDF fallback.
ReturnValue(u, t) ==
    CASE u = "pdf" -> PdfReturn(t)
      [] u = "image" -> ImageReturn(t)
      [] OTHER -> DocReturn(t)

\* Variant: the task ends without giving its slot back.
FinishWithoutRelease(i, r) ==
    /\ results' = [results EXCEPT ![i] = r]
    /\ pc' = [pc EXCEPT ![i] = "done"]
    /\ semaphore' = semaphore

\* The task leaves the async with block with result r.
Finish(i, r) ==
    /\ results' = [results EXCEPT ![i] = r]
    /\ pc' = [pc EXCEPT ![i] = "done"]
    /\ semaphore' = semaphore + 1

\* Variant: the PDF chain calls the fallback whatever the primary returned.
NeedsFallbackAlways(u, t) == u = "pdf"

\* The PDF chain calls _extract_with_pypdf2 when the primary text is empty.
NeedsFallback(u, t) == u = "pdf" /\ NoText(t)

\* The awaited primary extraction returns text t.
PrimaryReturns(i, t) ==
    /\ call = "gather" /\ ~cancelRequested
    /\ pc[i] = "primary"
    /\ primaryOut' = [primaryOut EXCEPT ![i] = Returned(t)]
    /\ text' = [text EXCEPT ![i] = t]
    /\ IF NeedsFallback(unit, t)
       THEN /\ pc' = [pc EXCEPT ![i] = "fallback"]
            /\ fallbackCalls' = [fallbackCalls EXCEPT ![i] = @ + 1]
            /\ UNCHANGED <<results, semaphore>>
       ELSE /\ Finish(i, ReturnValue(unit, t))
            /\ UNCHANGED fallbackCalls
    /\ UNCHANGED <<unit, call, paths, fallbackOut, cancelRequested, output,
                   success_count>>

\* Variant: a task whose extraction raises leaves without giving its slot back.
PrimaryRaisesKeepingSlot(i) ==
    /\ call = "gather" /\ ~cancelRequested
    /\ pc[i] = "primary"
    /\ primaryOut' = [primaryOut EXCEPT ![i] = Raised]
    /\ FinishWithoutRelease(i, EntityProcessingError)
    /\ UNCHANGED <<unit, call, paths, text, fallbackCalls, fallbackOut,
                   cancelRequested, output, success_count>>

\* The awaited primary extraction raises: except Exception re-raises it as
\* EntityProcessingError.
PrimaryRaises(i) ==
    /\ call = "gather" /\ ~cancelRequested
    /\ pc[i] = "primary"
    /\ primaryOut' = [primaryOut EXCEPT ![i] = Raised]
    /\ Finish(i, EntityProcessingError)
    /\ UNCHANGED <<unit, call, paths, text, fallbackCalls, fallbackOut,
                   cancelRequested, output, success_count>>

\* _extract_with_pypdf2 returns the joined page texts; the chain goes on with
\* the strip and the fence.
FallbackReturns(i, pages) ==
    /\ call = "gather" /\ ~cancelRequested
    /\ pc[i] = "fallback"
    /\ fallbackOut' = [fallbackOut EXCEPT ![i] = Returned(pages)]
    /\ text' = [text EXCEPT ![i] = Pypdf2Extract(pages)]
    /\ Finish(i, PdfReturn(Pypdf2Extract(pages)))
    /\ UNCHANGED <<unit, call, paths, primaryOut, fallbackCalls, cancelRequested,
                   output, success_count>>

\* What _extract_with_pypdf2 returns when PyPDF2 raises: return "".
FallbackFailureText == <<>>

\* PyPDF2 raises inside _extract_with_pypdf2, which catches it.
FallbackRaises(i) ==
    /\ call = "gather" /\ ~cancelRequested
    /\ pc[i] = "fallback"
    /\ fallbackOut' = [fallbackOut EXCEPT ![i] = Raised]
    /\ text' = [text EXCEPT ![i] = FallbackFailureText]
    /\ Finish(i, PdfReturn(FallbackFailureText))
    /\ UNCHANGED <<unit, call, paths, primaryOut, fallbackCalls, cancelRequested,
                   output, success_count>>

\* The caller cancels the task that awaits gather; gather cancels its children.
\* gather of no awaitables is done at once and the await does not suspend, so
\* a call with no paths has no point at which it can be cancelled.
Cancel ==
    /\ call = "gather" /\ ~cancelRequested
    /\ Len(paths) > 0
    /\ cancelRequested' = TRUE
    /\ UNCHANGED <<unit, call, paths, semaphore, pc, text, results, primaryOut,
                   fallbackCalls, fallbackOut, output, success_count>>

\* CancelledError is thrown into a child at its await.  It is not an
\* Exception, so except Exception lets it through; async with releases
\* the slot if the child held one.
TaskCancelled(i) ==
    /\ call = "gather" /\ cancelRequested
    /\ pc[i] \in {"acquire", "primary", "fallback"}
    /\ pc' = [pc EXCEPT ![i] = "cancelled"]
    /\ semaphore' = IF pc[i] = "acquire" THEN semaphore ELSE semaphore + 1
    /\ UNCHANGED <<unit, call, paths, text, results, primaryOut, fallbackCalls,
                   fallbackOut, cancelRequested, output, success_count>>

\* Variant: the zip loop skips a failed path instead of storing None.
AssignSkipFailed(out, path, result) ==
    IF result.kind = "exc" THEN out
    ELSE [p \in (DOMAIN out) \cup {path} |-> IF p = path THEN result ELSE out[p]]

\* One iteration of the zip loop: output[path] = None or the result.
Assign(out, path, result) ==
    [p \in (DOMAIN out) \cup {path} |->
        IF p = path THEN (IF IsException(result) THEN None ELSE result)
        ELSE out[p]]

\* Variant: the zip loop stops at the first failed result and the paths from
\* there on are stored as None.
RECURSIVE BuildOutputAborting(_, _, _)
BuildOutputAborting(ps, rs, n) ==
    IF n = 0 THEN <<>>
    ELSE LET before == BuildOutputAborting(ps, rs, n - 1)
             aborted == \E j \in 1..n : rs[j].kind = "exc"
         IN  [p \in (DOMAIN before) \cup {ps[n]} |->
                 IF p = ps[n] THEN (IF aborted THEN None ELSE rs[n]) ELSE before[p]]

\* Variant: a path that is already in the dict keeps its first value.
RECURSIVE BuildOutputFirstWins(_, _, _)
BuildOutputFirstWins(ps, rs, n) ==
    IF n = 0 THEN <<>>
    ELSE LET before == BuildOutputFirstWins(ps, rs, n - 1)
         IN  IF ps[n] \in DOMAIN before THEN before
             ELSE Assign(before, ps[n], rs[n])

\* The output dict after the first n pairs of zip(paths, results).
RECURSIVE BuildOutput(_, _, _)
BuildOutput(ps, rs, n) ==
    IF n = 0 THEN <<>>
    ELSE Assign(BuildOutput(ps, rs, n - 1), ps[n], rs[n])

\* sum(1 for v in output.values() if v is not None)
SuccessCount(out) == Cardinality({p \in DOMAIN out : out[p] # None})

\* Variant: the results are listed in the order in which the tasks finished
\* (as asyncio.as_completed would yield them).
GatheredInCompletionOrder(rs, fin) == [k \in DOMAIN rs |-> rs[fin[k]]]

\* The list asyncio.gather returns: the results in the order of its
\* arguments, whatever the order fin in which the tasks finished.
Gathered(rs, fin) == rs

\* gather has collected every task; the zip loop, the count and the return.
GatherReturns ==
    /\ call = "gather" /\ ~cancelRequested
    /\ \A i \in Tasks : pc[i] = "done"
    /\ output' = BuildOutput(paths, Gathered(results, finished), Len(paths))
    /\ success_count' = SuccessCount(output')
    /\ call' = "returned"
    /\ UNCHANGED <<unit, paths, semaphore, pc, text, results, primaryOut,
                   fallbackCalls, fallbackOut, cancelRequested>>

\* Every child has ended after the cancellation: the await of gather raises
\* CancelledError out of convert_batch.
GatherCancelled ==
    /\ call = "gather" /\ cancelRequested
    /\ \A i \in Tasks : pc[i] \in {"done", "cancelled"}
    /\ call' = "raised"
    /\ UNCHANGED <<unit, paths, semaphore, pc, text, results, primaryOut,
                   fallbackCalls, fallbackOut, cancelRequested, output,
                   success_count>>

Next ==
    \/ \E ps \in PathLists : ConvertBatch(ps) /\ UNCHANGED aux
    \/ \E i \in Tasks : Acquire(i) /\ UNCHANGED aux
    \/ \E i \in Tasks, t \in ExtractedTexts : PrimaryReturns(i, t) /\ UNCHANGED aux
    \/ \E i \in Tasks : PrimaryRaises(i) /\ UNCHANGED aux
    \/ \E i \in Tasks, pages \in PageDocs : FallbackReturns(i, pages) /\ UNCHANGED aux
    \/ \E i \in Tasks : FallbackRaises(i) /\ UNCHANGED aux
    \/ Cancel /\ UNCHANGED aux
    \/ \E i \in Tasks : TaskCancelled(i) /\ UNCHANGED aux
    \/ GatherReturns /\ UNCHANGED aux
    \/ GatherCancelled /\ UNCHANGED aux

Spec == Init /\ [][Next]_vars

(***************************************************************************)
(* A call that the caller does not cancel, with the scheduling the event   *)
(* loop gives: a task that can take a step is eventually run, an awaited   *)
(* extraction eventually returns or raises, and gather resumes the call    *)
(* once every task has ended.                                              *)
(***************************************************************************)
\* One step of task i of the call.
TaskStep(i) ==
    /\ i \in Tasks
    /\ \/ Acquire(i)
       \/ \E t \in ExtractedTexts : PrimaryReturns(i, t)
       \/ PrimaryRaises(i)
       \/ \E pages \in PageDocs : FallbackReturns(i, pages)
       \/ FallbackRaises(i)
    /\ UNCHANGED aux

\* The lists that name no file twice.  Which files a list names plays no part
\* in the scheduling of its tasks.
DistinctLists == {s \in PathLists : Cardinality({s[i] : i \in 1..Len(s)}) = Len(s)}

LiveNext ==
    \/ \E ps \in DistinctLists : ConvertBatch(ps) /\ UNCHANGED aux
    \/ \E i \in Tasks : TaskStep(i)
    \/ GatherReturns /\ UNCHANGED aux

LiveSpec ==
    /\ Init
    /\ [][LiveNext]_vars
    /\ \A i \in 1..MaxPaths : WF_vars(TaskStep(i))
    /\ WF_vars(GatherReturns /\ UNCHANGED aux)

(***************************************************************************)
(* Re-running convert_batch: the caller keeps the mapping of a first call  *)
(* and calls again with the same list while the files are unchanged, so    *)
(* that every extraction does in the second call what it did in the first. *)
(* The order in which the tasks finish is recorded in both calls.          *)
(***************************************************************************)
\* Longest list of paths of a re-run call.
MaxRerunPaths == 2

\* The tasks finished in the order of the list.
InListOrder(fin) == fin = [k \in 1..Len(fin) |-> k]

\* The caller takes the returned mapping of the first call.
KeepFirstRun ==
    /\ call = "returned" /\ ~firstRun.done
    /\ firstRun' = [done |-> TRUE, paths |-> paths, output |-> output,
                    primaryOut |-> primaryOut, fallbackOut |-> fallbackOut,
                    inOrder |-> InListOrder(finished)]
    /\ call' = "idle"
    /\ UNCHANGED <<unit, paths, semaphore, pc, text, results, primaryOut,
                   fallbackCalls, fallbackOut, cancelRequested, output,
                   success_count, finished, slow, other, document, rendered>>

\* The second call is made with the list of the first.
SameInput(ps) == firstRun.done => ps = firstRun.paths

\* The file of task i is unchanged: its extractions repeat the first call.
SamePrimary(i, prim) == firstRun.done => firstRun.primaryOut[i] = prim
SameFallback(i, fall) == firstRun.done => firstRun.fallbackOut[i] = fall

\* The order of finishing is recorded when the step ended task i.
RecordFinish(i) ==
    /\ finished' = IF pc'[i] = "done" THEN Append(finished, i) ELSE finished
    /\ UNCHANGED <<slow, firstRun, other, document, rendered>>

RerunNext ==
    \/ \E ps \in PathLists :
          /\ Len(ps) <= MaxRerunPaths /\ SameInput(ps)
          /\ ConvertBatch(ps)
          /\ finished' = <<>>
          /\ UNCHANGED <<slow, firstRun, other, document, rendered>>
    \/ \E i \in Tasks : Acquire(i) /\ UNCHANGED aux
    \/ \E i \in Tasks, t \in ExtractedTexts :
          SamePrimary(i, Returned(t)) /\ PrimaryReturns(i, t) /\ RecordFinish(i)
    \/ \E i \in Tasks :
          SamePrimary(i, Raised) /\ PrimaryRaises(i) /\ RecordFinish(i)
    \/ \E i \in Tasks, pages \in PageDocs :
          SameFallback(i, Returned(pages)) /\ FallbackReturns(i, pages) /\ RecordFinish(i)
    \/ \E i \in Tasks :
          SameFallback(i, Raised) /\ FallbackRaises(i) /\ RecordFinish(i)
    \/ GatherReturns /\ UNCHANGED aux
    \/ KeepFirstRun

RerunSpec == Init /\ [][RerunNext]_vars

(***************************************************************************)
(* extract() of SimpleDocxConverter._convert_single, on a parsed document: *)
(* a list of paragraphs (text and style name) and a list of tables (rows   *)
(* of cell texts).                                                         *)
(***************************************************************************)
\* Index of the first occurrence of sep in s, 0 if there is none.
FindFirst(s, sep) ==
    LET hits == {k \in 1..(Len(s) - Len(sep) + 1) : SubSeq(s, k, k + Len(sep) - 1) = sep}
    IN  IF hits = {} THEN 0 ELSE CHOOSE k \in hits : \A j \in hits : k <= j

\* s.split(sep)
RECURSIVE Split(_, _)
Split(s, sep) ==
    LET k == FindFirst(s, sep)
    IN  IF k = 0 THEN <<s>>
        ELSE <<SubSeq(s, 1, k - 1)>> \o Split(SubSeq(s, k + Len(sep), Len(s)), sep)

\* s.replace(old, new)
Replace(s, old, new) == Join(new, Split(s, old))

\* s.startswith(prefix)
StartsWith(s, prefix) ==
    Len(s) >= Len(prefix) /\ SubSeq(s, 1, Len(prefix)) = prefix

\* Value of a decimal digit character.
DigitValue(c) == CHOOSE d \in 0..9 : Digits[d + 1] = c

\* Value of a non-empty sequence of decimal digits.
RECURSIVE DigitsValue(_)
DigitsValue(ds) ==
    IF Len(ds) = 1 THEN DigitValue(ds[1])
    ELSE 10 * DigitsValue(SubSeq(ds, 1, Len(ds) - 1)) + DigitValue(ds[Len(ds)])

\* int(s): surrounding whitespace and one sign are accepted; anything else
\* than decimal digits is a ValueError (ok = FALSE).
ParseInt(s) ==
    LET t == Strip(s)
        signed == t # <<>> /\ t[1] \in {"+", "-"}
        ds == IF signed THEN Tail(t) ELSE t
        isNumber == ds # <<>> /\ \A k \in 1..Len(ds) : \E d \in 1..10 : Digits[d] = ds[k]
    IN  IF ~isNumber THEN [ok |-> FALSE, val |-> 0]
        ELSE [ok |-> TRUE,
              val |-> IF signed /\ t[1] = "-" THEN 0 - DigitsValue(ds) ELSE DigitsValue(ds)]

\* c * n for a character c: empty when n is not positive.
Repeat(c, n) == [k \in 1..(IF n > 0 THEN n ELSE 0) |-> c]

HeadingWord == <<"H", "e", "a", "d", "i", "n", "g">>
PipeSep == <<" ", "|", " ">>
Dashes == <<"-", "-", "-">>
\* "\n**Table:**"
TableMarker == <<"\n", "*", "*", "T", "a", "b", "l", "e", ":", "*", "*">>

\* The entry of one paragraph in the list paragraphs: nothing for a paragraph
\* without text, a heading line for a style "Heading N", else the text.
ParagraphLines(para) ==
    LET txt == Strip(para.text)
        level == Replace(para.style, HeadingWord \o <<" ">>, <<>>)
        level_num == ParseInt(level)
    IN  IF txt = <<>> THEN <<>>
        ELSE IF StartsWith(para.style, HeadingWord) /\ level_num.ok
             THEN << Repeat("#", level_num.val) \o <<" ">> \o txt >>
        ELSE <<txt>>

\* table_rows: the stripped cell texts of each row joined with " | ".
TableRows(table) ==
    [r \in 1..Len(table) |->
        Join(PipeSep, [c \in 1..Len(table[r]) |-> Strip(table[r][c])])]

\* The separator row: as many "---" as table_rows[0].split(" | ") has parts.
SeparatorRow(table) ==
    Join(PipeSep, [k \in 1..Len(Split(TableRows(table)[1], PipeSep)) |-> Dashes])

\* The entries of one table in the list paragraphs.
TableLines(table) ==
    LET table_rows == TableRows(table)
    IN  IF Len(table_rows) = 0 THEN <<>>
        ELSE <<TableMarker, table_rows[1]>>
             \o (IF Len(table_rows) > 1
                 THEN <<SeparatorRow(table)>> \o Tail(table_rows)
                 ELSE <<>>)

\* Concatenation of the lists f[1], ..., f[n].
RECURSIVE Flatten(_, _)
Flatten(f, n) == IF n = 0 THEN <<>> ELSE Flatten(f, n - 1) \o f[n]

\* The list paragraphs at the end of extract().
DocxParagraphs(doc) ==
    Flatten([k \in 1..Len(doc.paragraphs) |-> ParagraphLines(doc.paragraphs[k])],
            Len(doc.paragraphs))
    \o Flatten([k \in 1..Len(doc.tables) |-> TableLines(doc.tables[k])],
               Len(doc.tables))

\* extract(): "\n\n".join(paragraphs)
DocxExtract(doc) == Join(<<"\n", "\n">>, DocxParagraphs(doc))

\* The documents handed to extract().
DocxStyles == { <<"N", "o", "r", "m", "a", "l">>,
                HeadingWord \o <<" ", "2">>,
                HeadingWord \o <<" ", "X">>,
                HeadingWord }
DocxParas == {[text |-> t, style |-> st] : t \in {<<"x", " ">>, <<" ">>}, st \in DocxStyles}
DocxCells == { <<"A">>, <<"B">>, <<"1">>, <<"2">>, <<>>, <<"A", " ", "|", " ", "B">> }
DocxRowSet == {<<a>> : a \in DocxCells} \cup {<<a, b>> : a, b \in DocxCells}
DocxTables ==
    {<<>>} \cup {<<h>> : h \in DocxRowSet} \cup {<<h, r>> : h, r \in DocxRowSet}
DocxDocuments ==
    {[kind |-> "docx", paragraphs |-> ps, tables |-> ts, slides |-> <<>>] :
        ps \in {<<>>} \cup {<<pa>> : pa \in DocxParas},
        ts \in {<<>>} \cup {<<t>> : t \in DocxTables}
               \cup {<<t, t>> : t \in {<<h>> : h \in DocxRowSet}}}

\* A DOCX file has been parsed into a document.
DocxInit ==
    /\ CallInit /\ unit = "docx"
    /\ finished = <<>> /\ slow = 0 /\ firstRun = NoFirstRun /\ other = NoOtherCall
    /\ document \in DocxDocuments
    /\ rendered = NotRendered

\* extract() runs on the document.
DocxRender ==
    /\ document.kind = "docx" /\ ~rendered.done
    /\ rendered' = [done |-> TRUE, text |-> DocxExtract(document)]
    /\ UNCHANGED <<callVars, finished, slow, firstRun, other, document>>

DocxNext == DocxRender

DocxSpec == DocxInit /\ [][DocxNext]_vars

(***************************************************************************)
(* extract() of SimplePptxConverter._convert_single, on a parsed           *)
(* presentation: a list of slides, each a list of shapes; a shape may have *)
(* a text attribute and may hold a table (rows of cell texts).             *)
(***************************************************************************)
\* f"## Slide {slide_num}"
SlideHeader(slide_num) ==
    <<"#", "#", " ", "S", "l", "i", "d", "e", " ">> \o IntToStr(slide_num)

\* "\n\n---\n\n"
SlideSep == <<"\n", "\n", "-", "-", "-", "\n", "\n">>

\* What one shape appends to slide_content: its stripped text when it has a
\* text attribute with non-blank text, then one line per row of its table.
ShapeLines(shape) ==
    (IF shape.hasText /\ shape.text # <<>> /\ Strip(shape.text) # <<>>
     THEN <<Strip(shape.text)>> ELSE <<>>)
    \o (IF shape.hasTable
        THEN [r \in 1..Len(shape.rows) |->
                 Join(PipeSep, [c \in 1..Len(shape.rows[r]) |-> Strip(shape.rows[r][c])])]
        ELSE <<>>)

\* slide_content after the loop over the shapes of the slide.
SlideContent(slide, slide_num) ==
    <<SlideHeader(slide_num)>>
    \o Flatten([k \in 1..Len(slide) |-> ShapeLines(slide[k])], Len(slide))

\* Variant: every slide is kept.
HasContentAlways(slide_content) == TRUE

\* The slide has content beyond the slide number.
HasContent(slide_content) == Len(slide_content) > 1

\* slides_text after the first n slides.
RECURSIVE SlidesText(_, _)
SlidesText(slides, n) ==
    IF n = 0 THEN <<>>
    ELSE LET slide_content == SlideContent(slides[n], n)
         IN  SlidesText(slides, n - 1)
             \o (IF HasContent(slide_content)
                 THEN <<Join(<<"\n", "\n">>, slide_content)>>
                 ELSE <<>>)

\* extract(): "\n\n---\n\n".join(slides_text)
PptxExtract(doc) == Join(SlideSep, SlidesText(doc.slides, Len(doc.slides)))

\* The presentations handed to extract().  Shape texts hold no dash, so a
\* "---" in the output is a separator.
NoRows == <<>>
PptxShapes ==
    { [hasText |-> TRUE, text |-> <<"H", "e", "l", "l", "o">>, hasTable |-> FALSE, rows |-> NoRows],
      [hasText |-> TRUE, text |-> <<" ", "B", "y", "e", "\n">>, hasTable |-> FALSE, rows |-> NoRows],
      [hasText |-> TRUE, text |-> <<" ">>, hasTable |-> FALSE, rows |-> NoRows],
      [hasText |-> TRUE, text |-> <<>>, hasTable |-> FALSE, rows |-> NoRows],
      [hasText |-> FALSE, text |-> <<>>, hasTable |-> FALSE, rows |-> NoRows],
      [hasText |-> FALSE, text |-> <<>>, hasTable |-> TRUE, rows |-> NoRows],
      [hasText |-> FALSE, text |-> <<>>, hasTable |-> TRUE,
       rows |-> << << <<"A">>, <<" ", "B">> >>, << <<"1">>, <<>> >> >>] }
PptxSlides == {<<>>} \cup {<<a>> : a \in PptxShapes} \cup {<<a, b>> : a, b \in PptxShapes}
PptxOneShapeSlides == {<<>>} \cup {<<a>> : a \in PptxShapes}
PptxDocuments ==
    {[kind |-> "pptx", paragraphs |-> <<>>, tables |-> <<>>, slides |-> sl] :
        sl \in {<<>>} \cup {<<a>> : a \in PptxSlides}
               \cup {<<a, b>> : a \in PptxSlides, b \in PptxOneShapeSlides}
               \cup {<<a, b, c>> : a, b, c \in PptxOneShapeSlides}}

\* A PPTX file has been parsed into a presentation.
PptxInit ==
    /\ CallInit /\ unit = "pptx"
    /\ finished = <<>> /\ slow = 0 /\ firstRun = NoFirstRun /\ other = NoOtherCall
    /\ document \in PptxDocuments
    /\ rendered = NotRendered

\* extract() runs on the presentation.
PptxRender ==
    /\ document.kind = "pptx" /\ ~rendered.done
    /\ rendered' = [done |-> TRUE, text |-> PptxExtract(document)]
    /\ UNCHANGED <<callVars, finished, slow, firstRun, other, document>>

PptxNext == PptxRender

PptxSpec == PptxInit /\ [][PptxNext]_vars

(***************************************************************************)
(* Two convert_batch calls on the same unit instance that overlap in time. *)
(* The second call is followed as far as its semaphore and the position of *)
(* its tasks.                                                              *)
(***************************************************************************)
\* Longest list of paths of the second call.
MaxOtherPaths == 2

OtherTasks == 1..Len(other.pc)

\* Tasks of the second call inside the async with semaphore block.
OtherInSection == {j \in OtherTasks : other.pc[j] = "extract"}

\* The second call up to the await of gather: its own semaphore, created in
\* the call, and one task per path.
OtherConvertBatch(n) ==
    /\ other.call = "idle"
    /\ call = "gather"
    /\ other' = [call |-> "gather",
                 semaphore |-> MAX_CONCURRENT(unit),
                 pc |-> [j \in 1..n |-> "acquire"]]
    /\ UNCHANGED <<callVars, finished, slow, firstRun, document, rendered>>

\* async with semaphore entered by a task of the second call.
OtherAcquire(j) ==
    /\ other.call = "gather"
    /\ other.pc[j] = "acquire"
    /\ CanAcquire(other.semaphore)
    /\ other' = [other EXCEPT !.semaphore = @ - 1, !.pc[j] = "extract"]
    /\ UNCHANGED <<callVars, finished, slow, firstRun, document, rendered>>

\* A task of the second call leaves the async with block, with a text or
\* with an error.
OtherFinish(j) ==
    /\ other.call = "gather"
    /\ other.pc[j] = "extract"
    /\ other' = [other EXCEPT !.semaphore = @ + 1, !.pc[j] = "done"]
    /\ UNCHANGED <<callVars, finished, slow, firstRun, document, rendered>>

\* gather of the second call has collected every task.
OtherGatherReturns ==
    /\ other.call = "gather"
    /\ \A j \in OtherTasks : other.pc[j] = "done"
    /\ other' = [other EXCEPT !.call = "returned"]
    /\ UNCHANGED <<callVars, finished, slow, firstRun, document, rendered>>

OverlapNext ==
    \/ \E ps \in DistinctLists : ConvertBatch(ps) /\ UNCHANGED aux
    \/ \E i \in Tasks : TaskStep(i)
    \/ GatherReturns /\ UNCHANGED aux
    \/ \E n \in 0..MaxOtherPaths : OtherConvertBatch(n)
    \/ \E j \in OtherTasks : OtherAcquire(j)
    \/ \E j \in OtherTasks : OtherFinish(j)
    \/ OtherGatherReturns

OverlapSpec == Init /\ [][OverlapNext]_vars

(***************************************************************************)
(* A batch in which the extraction of one file never returns.              *)
(***************************************************************************)
\* run_in_thread_pool(func, ...) runs func on a worker thread and suspends
\* only the task that awaits it; the event loop goes on running other tasks.
RunsOffLoop == TRUE

\* The event loop can run a step of task i: no extraction of another task
\* occupies the loop.
LoopFree(i) ==
    RunsOffLoop \/ \A k \in Tasks \ {i} : pc[k] \notin {"primary", "fallback"}

\* The unit is constructed; the task at place slow of the next batch will
\* block inside its primary extraction.
SlowInit ==
    /\ CallInit
    /\ slow \in 1..MaxPaths
    /\ finished = <<>> /\ firstRun = NoFirstRun /\ other = NoOtherCall
    /\ document = NoDocument /\ rendered = NotRendered

\* A step of task i: the slow task enters its extraction and stays there.
SlowTaskStep(i) ==
    /\ i \in Tasks
    /\ LoopFree(i)
    /\ IF i = slow THEN Acquire(i) /\ UNCHANGED aux ELSE TaskStep(i)

SlowNext ==
    \/ \E ps \in DistinctLists : ConvertBatch(ps) /\ UNCHANGED aux
    \/ \E i \in Tasks : SlowTaskStep(i)
    \/ GatherReturns /\ UNCHANGED aux

\* The event loop runs every task that can take a step, and the extraction
\* of every file but the slow one returns or raises.
SlowSpec ==
    /\ SlowInit /\ [][SlowNext]_vars
    /\ \A i \in 1..MaxPaths : WF_vars(SlowTaskStep(i))

TypeOK ==
    /\ unit \in Units
    /\ call \in {"idle", "gather", "returned", "raised"}
    /\ paths \in PathLists
    /\ semaphore \in 0..MAX_CONCURRENT(unit)
    /\ \A i \in Tasks : pc[i] \in {"acquire", "primary", "fallback", "done", "cancelled"}
    /\ cancelRequested \in BOOLEAN

(***************************************************************************)
(* Properties.                                                             *)
(***************************************************************************)
\* No path is submitted twice.
Distinct(s) == \A i, j \in 1..Len(s) : s[i] = s[j] => i = j

\* The task of the last occurrence of path p in the list.
LastTask(p) == CHOOSE i \in Tasks : paths[i] = p /\ \A j \in Tasks : paths[j] = p => j <= i

\* The value a task returns, as a function of what its own extractions did:
\* the chain of _convert_single written as one expression.
ChainOutcome(u, prim, fall) ==
    IF prim.kind = "raised" THEN EntityProcessingError
    ELSE IF u = "pdf" /\ NoText(prim.val)
         THEN IF fall.kind = "raised" THEN StrVal(<<>>)
              ELSE IF Strip(Pypdf2Extract(fall.val)) = <<>> THEN StrVal(<<>>)
              ELSE StrVal(Fence(Strip(Pypdf2Extract(fall.val))))
    ELSE IF u = "pdf" THEN StrVal(Fence(Strip(prim.val)))
    ELSE IF u = "image" THEN StrVal(prim.val)
    ELSE StrVal(Strip(prim.val))

\* Tasks whose _convert_single raised.
FailedTasks == {i \in Tasks : results[i].kind = "exc"}

\* Entries of the returned mapping that hold a text, and that hold None.
Present == {p \in DOMAIN output : output[p] # None}
Absent == {p \in DOMAIN output : output[p] = None}

\* C1: at every instant of a convert_batch call, the number of tasks inside
\* their extraction section (slot held, the PDF fallback extraction included)
\* is at most the unit's MAX_CONCURRENT.
C1_ConcurrencyBound == Cardinality(InSection) <= MAX_CONCURRENT(unit)

\* C1 witness: the cap is binding: all slots are held, one of them by a task in
\* the PDF fallback, while another task waits for a slot.
C1_Witness ==
    /\ call = "gather"
    /\ Cardinality(InSection) = MAX_CONCURRENT(unit)
    /\ \E i \in Tasks : pc[i] = "fallback"
    /\ \E i \in Tasks : pc[i] = "acquire"

\* C2: failure isolation: in a returned batch of distinct paths every task has
\* run to completion, the entry of every path whose extraction did not fail is
\* the text its own extraction yields, whatever the other tasks did, and only
\* the failing paths are absent; with exactly one failing path of N, N-1
\* entries are present and 1 is absent.
C2_FailureIsolation ==
    (call = "returned" /\ Distinct(paths)) =>
        /\ \A i \in Tasks :
              /\ pc[i] = "done"
              /\ primaryOut[i].kind = "returned"
                    => output[paths[i]] =
                          ChainOutcome(unit, primaryOut[i], fallbackOut[i])
              /\ output[paths[i]] = None <=> primaryOut[i].kind = "raised"
        /\ Cardinality({i \in Tasks : primaryOut[i].kind = "raised"}) = 1
              => /\ Cardinality(Present) = Len(paths) - 1
                 /\ Cardinality(Absent) = 1

\* C2 witness: a returned batch of three distinct paths, the first of which
\* failed and the other two of which hold a text.
C2_Witness ==
    /\ call = "returned" /\ Distinct(paths) /\ Len(paths) = 3
    /\ primaryOut[1].kind = "raised"
    /\ output[paths[1]] = None
    /\ \A i \in {2, 3} : output[paths[i]].kind = "str" /\ output[paths[i]].val # <<>>

\* C3: completeness: after convert_batch returns, the key set of the mapping
\* is the set of submitted paths, each present exactly once, whatever the
\* outcome of its task, and the number of entries is the number of distinct
\* submitted paths.
C3_Completeness ==
    call = "returned" =>
        /\ DOMAIN output = Range(paths)
        /\ Cardinality(DOMAIN output) = Cardinality(Range(paths))

\* C3 witness: a returned batch with a failed, an empty and a converted path.
C3_Witness ==
    /\ call = "returned" /\ Len(paths) = 3
    /\ \E p \in DOMAIN output : output[p] = None
    /\ \E p \in DOMAIN output : output[p] = StrVal(<<>>)
    /\ \E p \in DOMAIN output : output[p].kind = "str" /\ output[p].val # <<>>

\* C4: convert_batch never raises because of extraction failures: unless the
\* caller cancels it, the call does not end by raising, and the mapping it
\* returns holds only texts and None, with None for every path whose (last)
\* task failed.
C4_NeverRaises ==
    /\ ~cancelRequested => call # "raised"
    /\ call = "returned" =>
          \A p \in Range(paths) :
              /\ output[p].kind \in {"str", "None"}
              /\ results[LastTask(p)].kind = "exc" => output[p] = None

\* C4 witness: the call has returned although every task of the batch failed.
C4_Witness ==
    /\ call = "returned" /\ Len(paths) >= 2
    /\ \A i \in Tasks : results[i].kind = "exc"
    /\ \A p \in Range(paths) : output[p] = None

\* C5: fallback short-circuit: in the PDF chain the fallback extractor is
\* called at most once per task and only after the primary has returned a
\* text that is empty after stripping; when the primary returns a text that is
\* not, the fallback is never called and the result is the primary's text
\* (stripped and fenced, as the unit returns every text).
C5_FallbackShortCircuit ==
    \A i \in Tasks :
        /\ fallbackCalls[i] <= 1
        /\ fallbackCalls[i] > 0 =>
              /\ unit = "pdf"
              /\ primaryOut[i].kind = "returned"
              /\ Strip(primaryOut[i].val) = <<>>
        /\ fallbackCalls[i] = 0 => fallbackOut[i].kind = "none"
        /\ (unit = "pdf" /\ primaryOut[i].kind = "returned"
              /\ Strip(primaryOut[i].val) # <<>>) =>
              /\ fallbackCalls[i] = 0
              /\ pc[i] = "done"
              /\ results[i] = StrVal(Fence(Strip(primaryOut[i].val)))

\* C5 witness: in one PDF batch a task ended with the primary's text without
\* a fallback call, while another task did call the fallback.
C5_Witness ==
    /\ unit = "pdf"
    /\ \E i \in Tasks :
          /\ pc[i] = "done" /\ primaryOut[i].kind = "returned"
          /\ Strip(primaryOut[i].val) # <<>> /\ fallbackCalls[i] = 0
    /\ \E i \in Tasks : fallbackCalls[i] = 1 /\ pc[i] = "done"

\* C6: fallback on primary failure: in the PDF chain, when the primary
\* extractor raises for a file, the chain advances to the fallback extractor,
\* and if the fallback returns non-empty text the outcome is that text.
C6_FallbackOnPrimaryFailure ==
    \A i \in Tasks :
        (unit = "pdf" /\ pc[i] = "done" /\ primaryOut[i].kind = "raised") =>
            /\ fallbackCalls[i] = 1
            /\ (fallbackOut[i].kind = "returned"
                  /\ Strip(Pypdf2Extract(fallbackOut[i].val)) # <<>>)
                  => results[i] = StrVal(Fence(Strip(Pypdf2Extract(fallbackOut[i].val))))

\* C7: fallback exhaustion with a failure: in the PDF chain, when the primary
\* returns empty or whitespace-only text and the fallback then raises, the
\* outcome is a failure (an absent entry), not the empty string.
C7_ExhaustionWithFailure ==
    \A i \in Tasks :
        (unit = "pdf" /\ pc[i] = "done" /\ primaryOut[i].kind = "returned"
            /\ NoText(primaryOut[i].val) /\ fallbackOut[i].kind = "raised") =>
            /\ results[i].kind = "exc"
            /\ (call = "returned" /\ i = LastTask(paths[i])) => output[paths[i]] = None

\* C8: fallback exhaustion without failure: in the PDF chain, when the primary
\* returns only whitespace and the fallback returns empty text, the outcome is
\* the present empty string (not None, no code fence), and the entry counts
\* among the successful ones.
C8_ExhaustionEmpty ==
    \A i \in Tasks :
        (unit = "pdf" /\ pc[i] = "done" /\ primaryOut[i].kind = "returned"
            /\ NoText(primaryOut[i].val) /\ fallbackOut[i].kind = "returned"
            /\ Strip(Pypdf2Extract(fallbackOut[i].val)) = <<>>) =>
            /\ results[i] = StrVal(<<>>)
            /\ (call = "returned" /\ i = LastTask(paths[i])) =>
                  /\ output[paths[i]] = StrVal(<<>>)
                  /\ output[paths[i]] # None
                  /\ paths[i] \in Present
                  /\ success_count = Cardinality(Present)

\* C8 witness: a returned PDF batch in which the primary gave whitespace only,
\* the fallback read a page without text, and the entry is the empty string.
C8_Witness ==
    /\ unit = "pdf" /\ call = "returned"
    /\ \E i \in Tasks :
          /\ primaryOut[i] = Returned(<<" ", "\n">>)
          /\ fallbackOut[i] = Returned(<< <<>> >>)
          /\ output[paths[i]] = StrVal(<<>>)
          /\ success_count >= 1

\* C9: counter invariant: after every convert_batch call, with attempted the
\* number of submitted paths, succeeded the number of present entries and
\* failed the number of absent entries, succeeded + failed = attempted =
\* len(paths), also for lists that name a path more than once.
C9_CounterInvariant ==
    call = "returned" =>
        success_count + Cardinality(Absent) = Len(paths)

\* C10: cancellation: when the caller cancels a convert_batch call, the call
\* returns a mapping with the results of the tasks already completed and an
\* absent entry for every other submitted path, and no task is left running.
C10_Cancellation ==
    (cancelRequested /\ call # "gather") =>
        /\ call = "returned"
        /\ DOMAIN output = Range(paths)
        /\ \A i \in Tasks : pc[i] \in {"done", "cancelled"}
        /\ \A p \in Range(paths) :
              output[p] = IF results[LastTask(p)].kind = "str"
                          THEN results[LastTask(p)] ELSE None

\* C11: liveness: provided every extraction call eventually returns or
\* raises, every task of a batch eventually obtains a slot, runs and has its
\* outcome recorded, and convert_batch eventually returns with one outcome per
\* submitted task, also when the batch is larger than MAX_CONCURRENT.
C11_Liveness ==
    /\ \A i \in 1..MaxPaths :
          (i \in Tasks /\ pc[i] = "acquire")
              ~> (i \in Tasks /\ pc[i] = "done" /\ results[i] # NoResult)
    /\ (call = "gather")
          ~> (/\ call = "returned"
              /\ Len(results) = Len(paths)
              /\ \A i \in Tasks : pc[i] = "done" /\ results[i] # NoResult)

\* C11 witness: a batch larger than MAX_CONCURRENT has returned with the
\* outcome of every task recorded.
C11_Witness ==
    /\ call = "returned"
    /\ Len(paths) > MAX_CONCURRENT(unit)
    /\ \A i \in Tasks : pc[i] = "done" /\ results[i] # NoResult

\* The entry the zip loop stores for a task result.
Entry(r) == IF r.kind = "exc" THEN None ELSE r

\* C12: order independence: for a batch of distinct paths the value mapped to
\* each path is the outcome of the task created for that path, whatever the
\* order in which the tasks finished, and a second run of the same batch
\* that finishes in another order returns an equal mapping.
C12_OrderIndependence ==
    (call = "returned" /\ Distinct(paths)) =>
        /\ \A i \in Tasks : output[paths[i]] = Entry(results[i])
        /\ firstRun.done => output = firstRun.output

\* C12 witness: two distinct paths with different outcomes, the second of
\* which finished first, in a batch that has returned.
C12_Witness ==
    /\ call = "returned" /\ paths = <<1, 2>>
    /\ finished = <<2, 1>>
    /\ results[1] # results[2]
    /\ output[1] = Entry(results[1]) /\ output[2] = Entry(results[2])

\* C15: idempotence: a second convert_batch call on the same unit with the
\* same list, in which every extraction returns what it returned in the
\* first call, returns a mapping with the same value for every path,
\* whatever the interleaving of the tasks in either call.
C15_Idempotence ==
    (firstRun.done /\ call = "returned") =>
        /\ DOMAIN output = DOMAIN firstRun.output
        /\ \A p \in DOMAIN output : output[p] = firstRun.output[p]

\* C15 witness: the first call finished its tasks in list order, the second
\* call in the opposite order, and the second has returned a mapping with
\* two different texts.
C15_Witness ==
    /\ firstRun.done /\ firstRun.inOrder /\ call = "returned"
    /\ Len(paths) = 2 /\ finished = <<2, 1>>
    /\ \A p \in DOMAIN output : output[p].kind = "str"
    /\ \E p, q \in DOMAIN output : output[p] # output[q]

\* The tasks created for path p.
TasksOf(p) == {i \in Tasks : paths[i] = p}

\* C13: duplicate identities: when a path is submitted k > 1 times, k tasks
\* are created and all k run (none is deduplicated), the returned mapping has
\* one entry for the path, and its value is the outcome of one of the k
\* tasks: the last writer of the zip loop, the last occurrence in the list.
C13_Duplicates ==
    call = "returned" =>
        /\ Len(pc) = Len(paths)
        /\ \A p \in Range(paths) :
              /\ \A i \in TasksOf(p) : pc[i] = "done" /\ primaryOut[i] # NotCalled
              /\ p \in DOMAIN output
              /\ output[p] = Entry(results[LastTask(p)])
              /\ \E i \in TasksOf(p) : output[p] = Entry(results[i])
        /\ Cardinality(DOMAIN output) = Cardinality(Range(paths))

\* C13 witness: a path submitted three times whose tasks all ran, the first
\* giving a text and the last failing; the single entry is that of the last.
C13_Witness ==
    /\ call = "returned" /\ paths = <<1, 1, 1>>
    /\ \A i \in Tasks : pc[i] = "done" /\ primaryOut[i] # NotCalled
    /\ results[1].kind = "str" /\ results[1].val # <<>>
    /\ results[3].kind = "exc"
    /\ DOMAIN output = {1} /\ output[1] = None

\* C14: empty content is not failure: for the DOCX and PPTX units, a file
\* that is read without error but yields empty or whitespace-only text is
\* mapped to the present empty string, not to None, and counts among the
\* successful conversions.
C14_EmptyIsNotFailure ==
    \A i \in Tasks :
        (unit \in {"docx", "pptx"} /\ pc[i] = "done"
            /\ primaryOut[i].kind = "returned" /\ NoText(primaryOut[i].val)) =>
            /\ results[i] = StrVal(<<>>)
            /\ (call = "returned" /\ i = LastTask(paths[i])) =>
                  /\ output[paths[i]] = StrVal(<<>>)
                  /\ output[paths[i]] # None
                  /\ paths[i] \in Present
                  /\ success_count = Cardinality(Present)
                  /\ success_count >= 1

\* C14 witness: a returned DOCX or PPTX batch with a whitespace-only file
\* mapped to the empty string next to a failed file mapped to None.
C14_Witness ==
    /\ unit \in {"docx", "pptx"} /\ call = "returned" /\ Distinct(paths)
    /\ \E i \in Tasks :
          /\ primaryOut[i] = Returned(<<" ", "\n">>)
          /\ output[paths[i]] = StrVal(<<>>)
    /\ \E i \in Tasks : primaryOut[i] = Raised /\ output[paths[i]] = None
    /\ success_count = Len(paths) - 1

\* C16: empty batch: convert_batch with an empty list returns an empty
\* mapping without raising, without invoking an extractor and without
\* acquiring a slot.
C16_EmptyBatch ==
    (call # "idle" /\ paths = <<>>) =>
        /\ call \in {"gather", "returned"}
        /\ ~cancelRequested
        /\ semaphore = MAX_CONCURRENT(unit)
        /\ pc = <<>> /\ primaryOut = <<>> /\ fallbackOut = <<>>
        /\ call = "returned" => output = <<>> /\ success_count = 0

\* C16 witness: the call with the empty list has returned.
C16_Witness ==
    /\ call = "returned" /\ paths = <<>>
    /\ output = <<>> /\ semaphore = MAX_CONCURRENT(unit)

\* The document with one table: header row A, B and data row 1, 2.
C17_ExampleDocument ==
    [kind |-> "docx", paragraphs |-> <<>>,
     tables |-> << << << <<"A">>, <<"B">> >>, << <<"1">>, <<"2">> >> >> >>,
     slides |-> <<>>]

\* "**Table:**\nA | B\n--- | ---\n1 | 2"
C17_ExampleText ==
    <<"*", "*", "T", "a", "b", "l", "e", ":", "*", "*", "\n",
      "A", " ", "|", " ", "B", "\n",
      "-", "-", "-", " ", "|", " ", "-", "-", "-", "\n",
      "1", " ", "|", " ", "2">>

\* C17: DOCX table rendering: the table with header row A, B and data row
\* 1, 2 is rendered as marker line, header row, separator row and data row
\* separated by single newlines, and in general the separator row has as many
\* "---" cells as the header row has cells.
C17_TableRendering ==
    rendered.done =>
        /\ document = C17_ExampleDocument
              => DocReturn(rendered.text) = StrVal(C17_ExampleText)
        /\ \A k \in 1..Len(document.tables) :
              Len(document.tables[k]) > 1 =>
                  TableLines(document.tables[k])[3] =
                      Join(PipeSep, [c \in 1..Len(document.tables[k][1]) |-> Dashes])

\* The slide has a shape with non-blank text or a table with a row.
C18_HasBody(slide) ==
    \E k \in 1..Len(slide) :
        \/ slide[k].hasText /\ \E j \in 1..Len(slide[k].text) : ~IsSpace(slide[k].text[j])
        \/ slide[k].hasTable /\ Len(slide[k].rows) > 0

\* The slides of the presentation that have a body line.
C18_Kept == {n \in 1..Len(document.slides) : C18_HasBody(document.slides[n])}

\* A slide without any shape, or with one shape of blank text.
C18_EmptySlides ==
    { <<>>, << [hasText |-> TRUE, text |-> <<" ">>, hasTable |-> FALSE, rows |-> NoRows] >> }

C18_HelloSlide ==
    << [hasText |-> TRUE, text |-> <<"H", "e", "l", "l", "o">>, hasTable |-> FALSE, rows |-> NoRows] >>

\* "## Slide 2\n\nHello"
C18_HelloBlock ==
    <<"#", "#", " ", "S", "l", "i", "d", "e", " ", "2", "\n", "\n", "H", "e", "l", "l", "o">>

\* C18: PPTX slide filtering: the header "## Slide n" appears in the output
\* exactly for the slides that have a body line; the kept blocks are joined
\* by the "---" separator, one separator less than blocks, none leading and
\* none trailing; slides [empty, "Hello"] give the single block of "Hello".
C18_SlideFiltering ==
    rendered.done =>
        /\ \A n \in 1..Len(document.slides) :
              (FindFirst(rendered.text, SlideHeader(n)) # 0) <=> (n \in C18_Kept)
        /\ Len(Split(rendered.text, SlideSep)) =
              (IF C18_Kept = {} THEN 1 ELSE Cardinality(C18_Kept))
        /\ ~StartsWith(rendered.text, SlideSep)
        /\ Len(rendered.text) >= Len(SlideSep) =>
              SubSeq(rendered.text, Len(rendered.text) - Len(SlideSep) + 1,
                     Len(rendered.text)) # SlideSep
        /\ C18_Kept = {} <=> rendered.text = <<>>
        /\ (Len(document.slides) = 2 /\ document.slides[1] \in C18_EmptySlides
                /\ document.slides[2] = C18_HelloSlide)
              => /\ rendered.text = C18_HelloBlock
                 /\ DocReturn(rendered.text) = StrVal(C18_HelloBlock)

\* extract() has run on slides [empty, "Hello"] and returned the one block.
C18_Witness ==
    /\ rendered.done
    /\ document.slides = << <<>>, C18_HelloSlide >>
    /\ rendered.text = C18_HelloBlock

\* C19: the concurrency cap is per unit: the extractions in flight on one
\* unit instance, counted over two overlapping convert_batch calls, never
\* exceed the unit's MAX_CONCURRENT.
C19_CapPerUnit ==
    Cardinality(InSection) + Cardinality(OtherInSection) <= MAX_CONCURRENT(unit)

\* C20: a slow file cannot stall the batch: while the slow task is blocked
\* inside its extraction, every other task of the batch, whether it holds a
\* slot or still waits for one, completes its own extraction, and it does so
\* while the slow task is still blocked.
C20_SlowFileDoesNotStall ==
    \A i \in 1..MaxPaths :
        (/\ call = "gather" /\ slow \in Tasks /\ i \in Tasks /\ i # slow
         /\ pc[slow] = "primary" /\ pc[i] # "done")
        ~> (/\ call = "gather" /\ slow \in Tasks /\ i \in Tasks
            /\ pc[slow] = "primary"
            /\ pc[i] = "done" /\ results[i] # NoResult)

\* The slow task took the first slot and is still blocked, a batch larger
\* than the cap has otherwise completed.
C20_Witness ==
    /\ call = "gather" /\ slow \in Tasks
    /\ Len(paths) > MAX_CONCURRENT(unit)
    /\ pc[slow] = "primary" /\ results[slow] = NoResult
    /\ \A i \in Tasks \ {slow} : pc[i] = "done" /\ results[i] # NoResult

\* C21: slot conservation: in every state of a batch the free slots plus the
\* slots held by tasks inside their extraction equal MAX_CONCURRENT and the
\* free slots are never negative; a task whose extraction raised holds no
\* slot; when convert_batch returns all slots are free and no task is running.
C21_SlotConservation ==
    call # "idle" =>
        /\ semaphore >= 0
        /\ semaphore + Cardinality(InSection) = MAX_CONCURRENT(unit)
        /\ \A i \in Tasks : primaryOut[i] = Raised => i \notin InSection
        /\ call = "returned" =>
              /\ semaphore = MAX_CONCURRENT(unit)
              /\ InSection = {}
              /\ \A i \in Tasks : pc[i] = "done"

\* A batch larger than the cap has returned, one of its extractions raised,
\* and all slots are free.
C21_Witness ==
    /\ call = "returned"
    /\ Len(paths) > MAX_CONCURRENT(unit)
    /\ \E i \in Tasks : primaryOut[i] = Raised
    /\ \E i \in Tasks : primaryOut[i] # Raised
    /\ semaphore = MAX_CONCURRENT(unit)

====
